---------------------------- MODULE Spec2Model ----------------------------
(***************************************************************************)
(* A model of parameters.Parameters (src/parameters/parameters.py): the    *)
(* parameter store, the cycle check, forward and inverse evaluation of     *)
(* function-valued parameters, override propagation and the scaling        *)
(* engine with its cache.                                                  *)
(*                                                                         *)
(* Names are sequences of one-character strings, so that the identifier    *)
(* pattern and the stripping of the "_" prefix are computed.  Numbers are  *)
(* exact rationals <<n, d>>.  A Python dict is a sequence of <<key,        *)
(* value>> pairs with distinct keys; its iteration order is the order of   *)
(* the sequence, and the requests enumerate both orders of their keys.     *)
(***************************************************************************)
EXTENDS Integers, Sequences, FiniteSets, TLC

VARIABLES
    parameters,       \* self.__parameters      : name -> quantity or function
    parameters_spec,  \* self.__parameters_spec : name -> unit
    scalings,         \* self.__scalings        : dimension -> quantity
    unit_scalings,    \* self.__unit_scalings   : sequence of <<dimensions, factor>>
    scaling_cache,    \* self.__scaling_cache   : unit -> factor
    shared,           \* the sets of parameters that hold one and the same Quantity object
    last              \* the last call made on the object and how it ended

vars ==
    <<parameters, parameters_spec, scalings, unit_scalings, scaling_cache, shared, last>>

-----------------------------------------------------------------------------
(* Bounds of the model. *)

\* The bare numbers a request may carry are 1 .. MaxVal.
MaxVal == 3

\* The basis-scaling magnitudes a request may carry are 2 .. MaxScale.
MaxScale == 2

\* The calls that would store a magnitude with a numerator or a denominator
\* above MaxMagnitude are left out.
MaxMagnitude == 9

\* The unit-scaling overrides declared are at most MaxOverrides.
MaxOverrides == 1

\* The passes after which the propagation is ended as Python's recursion
\* limit ends it.
MaxPasses == 6

-----------------------------------------------------------------------------
(* Exact rational arithmetic: Python's floats, without the rounding. *)

RECURSIVE GCD(_, _)
GCD(a, b) == IF b = 0 THEN a ELSE GCD(b, a % b)

Abs(a) == IF a < 0 THEN -a ELSE a

Reduced(n, d, g) == IF d < 0 THEN <<(-n) \div g, (-d) \div g>> ELSE <<n \div g, d \div g>>

Rat(n, d) == Reduced(n, d, GCD(Abs(n), Abs(d)))

RInt(n) == <<n, 1>>
RMul(a, b) == Rat(a[1] * b[1], a[2] * b[2])
RDiv(a, b) == Rat(a[1] * b[2], a[2] * b[1])
RAdd(a, b) == Rat(a[1] * b[2] + b[1] * a[2], a[2] * b[2])

RECURSIVE RPow(_, _)
RPow(a, p) ==
    IF p = 0 THEN RInt(1)
    ELSE IF p < 0 THEN RDiv(RInt(1), RPow(a, -p))
    ELSE RMul(a, RPow(a, p - 1))

-----------------------------------------------------------------------------
(* Names. *)

Letters ==
    {"a","b","c","d","e","f","g","h","i","j","k","l","m","n","o","p","q","r",
     "s","t","u","v","w","x","y","z","A","B","C","D","E","F","G","H","I","J",
     "K","L","M","N","O","P","Q","R","S","T","U","V","W","X","Y","Z"}

Digits == {"0","1","2","3","4","5","6","7","8","9"}

\* re.match("^[_A-Za-z][_a-zA-Z0-9]*$", param): "$" also matches before a
\* newline that ends the string.
is_valid_param(param) ==
    /\ Len(param) >= 1
    /\ param[1] \in Letters \cup {"_"}
    /\ \A i \in 2..Len(param) :
          \/ param[i] \in Letters \cup Digits \cup {"_"}
          \/ i = Len(param) /\ param[i] = "\n"

\* The identifier pattern of the data model, matched against the whole name.
IsIdentifier(name) ==
    /\ Len(name) >= 1
    /\ name[1] \in Letters \cup {"_"}
    /\ \A i \in 2..Len(name) : name[i] \in Letters \cup Digits \cup {"_"}

get_pam_name(param) ==
    IF Len(param) >= 1 /\ param[1] = "_" THEN Tail(param) ELSE param

\* "_" + param
Prefixed(param) == <<"_">> \o param

nx == <<"x">>
ny == <<"y">>
nz == <<"z">>
n_x == <<"_", "x">>
n_y == <<"_", "y">>
n1x == <<"1", "x">>
length == <<"l", "e", "n", "g", "t", "h">>
time == <<"t", "i", "m", "e">>

-----------------------------------------------------------------------------
(* Python dicts as sequences of <<key, value>> pairs. *)

Range(seq) == {seq[i] : i \in 1..Len(seq)}

DKeys(d) == {d[i][1] : i \in 1..Len(d)}
DHas(d, k) == k \in DKeys(d)
DGet(d, k) == d[CHOOSE i \in 1..Len(d) : d[i][1] = k][2]
DSet(d, k, v) ==
    IF DHas(d, k)
    THEN [i \in 1..Len(d) |-> IF d[i][1] = k THEN <<k, v>> ELSE d[i]]
    ELSE Append(d, <<k, v>>)
DDel(d, k) == SelectSeq(d, LAMBDA e : e[1] # k)

RECURSIVE DUpdate(_, _)
DUpdate(d, e) ==
    IF e = <<>> THEN d ELSE DUpdate(DSet(d, e[1][1], e[1][2]), Tail(e))

\* A mapping with one more (or one changed) entry, and with one entry less.
MapSet(f, k, v) == [a \in DOMAIN f \cup {k} |-> IF a = k THEN v ELSE f[a]]
MapDel(f, k) == [a \in DOMAIN f \ {k} |-> f[a]]
EmptyMap == [a \in {} |-> 0]

-----------------------------------------------------------------------------
(* Units and quantities: the unit dispenser and the Quantity type, which   *)
(* the engine uses through get, dimensions, scale and basis.               *)

Dims == {length, time}

\* The units the dispenser knows here: dimensionless, metre, second and
\* millisecond.
UnitNames == {"", "m", "s", "ms"}

NoDimensions == [d \in Dims |-> 0]
OneDimension(dim) == [d \in Dims |-> IF d = dim THEN 1 ELSE 0]

\* Unit.dimensions
UnitDimensions(u) ==
    CASE u = "" -> NoDimensions
      [] u = "m" -> OneDimension(length)
      [] u = "s" -> OneDimension(time)
      [] u = "ms" -> OneDimension(time)

\* The size of a unit in the basis units of its dimensions.
UnitRel(u) ==
    CASE u = "" -> RInt(1)
      [] u = "m" -> RInt(1)
      [] u = "s" -> RInt(1)
      [] u = "ms" -> <<1, 1000>>

\* dispenser.basis()[dim]
BasisUnit(dim) == IF dim = length THEN "m" ELSE "s"

\* Values.  A quantity is a magnitude with a unit; a bare number has none.
Num(r) == [kind |-> "num", v |-> r]
Qty(r, u) == [kind |-> "qty", v |-> r, u |-> u]
\* A tuple (magnitude, unit, ...) of len elements, as a request carries it.
Tuple(r, u, len) == [kind |-> "tuple", v |-> r, u |-> u, len |-> len]
\* A function object: its declared arguments, how many of the last ones
\* default to None, and its body.
Fn(body, args, ndef) == [kind |-> "fn", body |-> body, args |-> args, ndef |-> ndef]
\* A tuple (function, unit).
FnTuple(f, u) == [kind |-> "fntuple", f |-> f, u |-> u]
\* The tuple or list a function returns.
RetTuple(items) == [kind |-> "rettuple", items |-> items]
None == [kind |-> "none"]
\* The Quantity object that the parameter name holds, as p('_name') returns it.
Stored(name) == [kind |-> "stored", of |-> name]

IsFunction(val) == val.kind = "fn"
IsQuantity(val) == val.kind = "qty"

\* The outcome of a computation inside a call: an error or a value, and the
\* scaling cache as the computation left it.
Ok(val, cache) == [err |-> "", val |-> val, cache |-> cache]
Err(e, cache) == [err |-> e, val |-> None, cache |-> cache]

-----------------------------------------------------------------------------
(* The scaling engine.  S is the object's state: a record with the fields  *)
(* parameters, parameters_spec, scalings, unit_scalings, scaling_cache.    *)

RECURSIVE unit_scale_from(_, _, _)
unit_scale_from(S, u, i) ==
    IF i > Len(S.unit_scalings) THEN RInt(1)
    ELSE IF S.unit_scalings[i][1] = UnitDimensions(u) THEN S.unit_scalings[i][2]
    ELSE unit_scale_from(S, u, i + 1)

\* __unit_scale: the factor of the first entry with the unit's dimensions.
unit_scale(S, u) == unit_scale_from(S, u, 1)

\* self.__scalings.get(dim, Quantity(1, basis[dim]))
ScalingOf(S, dim) ==
    IF dim \in DOMAIN S.scalings THEN S.scalings[dim] ELSE Qty(RInt(1), BasisUnit(dim))

\* A quantity q ** power, as its magnitude and the size of its unit.
QuantityPower(q, power) == [v |-> RPow(q.v, power), rel |-> RPow(UnitRel(q.u), power)]

\* The product of two quantities, given in the same way.
QuantityProduct(f, r) == [v |-> RMul(f.v, r.v), rel |-> RMul(f.rel, r.rel)]

RECURSIVE BasisProduct(_, _, _)
BasisProduct(S, u, dims) ==
    IF dims = {} THEN [v |-> RInt(1), rel |-> RInt(1)]
    ELSE QuantityProduct(
            QuantityPower(ScalingOf(S, CHOOSE e \in dims : TRUE),
                          UnitDimensions(u)[CHOOSE e \in dims : TRUE]),
            BasisProduct(S, u, dims \ {CHOOSE e \in dims : TRUE}))

\* __basis_scale: the product over the unit's dimensions.
basis_scale(S, u) == BasisProduct(S, u, {d \in Dims : UnitDimensions(u)[d] # 0})

\* scale.value * scale.units.scale(unit) / self.__unit_scale(unit)
ScalingFactor(scale, u, override) ==
    RDiv(RMul(scale.v, RDiv(scale.rel, UnitRel(u))), override)

\* The factor __unit_scaling computes when the cache does not hold the unit.
unit_scaling_direct(S, u) == ScalingFactor(basis_scale(S, u), u, unit_scale(S, u))

\* Lines 588-589: the factor is kept in the cache and returned.
Cached(cache, u, scaling) == Ok(scaling, MapSet(cache, u, scaling))

\* __unit_scaling with the cache given: the factor, and the cache afterwards.
unit_scaling(S, cache, u) ==
    IF u \in DOMAIN cache THEN Ok(cache[u], cache)
    ELSE Cached(cache, u, unit_scaling_direct(S, u))

\* __get_unit for a unit given by name.
get_unit_known(u) == u \in UnitNames

\* Line 411: q.value / self.__unit_scaling(q.units), us being the factor.
ScaledBy(q, us) == Ok(Num(RDiv(q.v, us.val)), us.cache)

\* Lines 408-411: q as it is, or scaled.
Finish(S, cache, q, scaled) ==
    IF ~scaled THEN Ok(q, cache)
    ELSE IF ~IsQuantity(q) THEN Err("AttributeError", cache)
    ELSE ScaledBy(q, unit_scaling(S, cache, q.u))

\* Line 406: Quantity(value * self.__unit_scaling(unit), unit), us being the factor.
FromNumber(S, value, unit, us, scaled) ==
    Finish(S, us.cache, Qty(RMul(value.v, us.val), unit), scaled)

\* Line 405: the unit declared for param, or the dimensionless one.
SpecUnit(S, param) ==
    IF param \in DOMAIN S.parameters_spec THEN S.parameters_spec[param] ELSE ""

\* __get_quantity(value, param=param, scaled=scaled) with the cache given.
get_quantity(S, cache, value, param, scaled) ==
    CASE value.kind = "tuple" ->
            IF value.len # 2 THEN Err("ValueError", cache)
            ELSE IF ~get_unit_known(value.u) THEN Err("UnitError", cache)
            ELSE Finish(S, cache, Qty(value.v, value.u), scaled)
      [] value.kind = "rettuple" ->
            IF Len(value.items) # 2 THEN Err("ValueError", cache)
            ELSE Err("UnitError", cache)
      [] value.kind = "fntuple" -> Err("TypeError", cache)
      [] value.kind = "qty" -> Finish(S, cache, value, scaled)
      [] value.kind = "fn" -> Finish(S, cache, value, scaled)
      [] value.kind = "none" -> Err("TypeError", cache)
      [] value.kind = "num" ->
            FromNumber(S, value, SpecUnit(S, param),
                       unit_scaling(S, cache, SpecUnit(S, param)), scaled)

-----------------------------------------------------------------------------
(* Function objects.  The bodies are those of these Python functions, the  *)
(* argument names being free:                                              *)
(*   "sq"    : lambda a: a**2                                              *)
(*   "dbl"   : lambda a, t=None: 2*a if t is None else (t/2,)              *)
(*   "sqsum" : lambda a, b, t=None: a**2+b if t is None else (1,2)         *)

\* Whether values are read scaled by default: the constructor's default.
default_scaled == TRUE

\* A number or quantity with its magnitude multiplied by r.
Times(val, r) ==
    IF val.kind = "num" THEN Num(RMul(val.v, r)) ELSE Qty(RMul(val.v, r), val.u)

IsNumeric(val) == val.kind \in {"num", "qty"}

Returns(val) == [err |-> "", val |-> val]
Raises(e) == [err |-> e, val |-> None]

\* The value bound to the i-th declared argument: the missing ones are None.
Bound(arguments, i) == IF i <= Len(arguments) THEN arguments[i] ELSE None

\* f(*arguments): the arguments bound by position.
Call(f, arguments) ==
    IF Len(arguments) > Len(f.args) \/ Len(arguments) < Len(f.args) - f.ndef
    THEN Raises("TypeError")
    ELSE CASE f.body = "sq" ->
                IF Bound(arguments, 1).kind = "num"
                THEN Returns(Num(RMul(arguments[1].v, arguments[1].v)))
                ELSE IF Bound(arguments, 1).kind = "qty" /\ arguments[1].u = ""
                THEN Returns(Qty(RMul(arguments[1].v, arguments[1].v), ""))
                ELSE Raises("TypeError")
           [] f.body = "dbl" ->
                IF Bound(arguments, 2).kind = "none"
                THEN IF IsNumeric(Bound(arguments, 1))
                     THEN Returns(Times(arguments[1], RInt(2)))
                     ELSE Raises("TypeError")
                ELSE IF IsNumeric(arguments[2])
                     THEN Returns(RetTuple(<<Times(arguments[2], <<1, 2>>)>>))
                     ELSE Raises("TypeError")
           [] f.body = "dblfirst" ->
                IF Bound(arguments, 1).kind = "none"
                THEN IF IsNumeric(Bound(arguments, 2))
                     THEN Returns(Times(arguments[2], RInt(2)))
                     ELSE Raises("TypeError")
                ELSE IF IsNumeric(arguments[1])
                     THEN Returns(RetTuple(<<Times(arguments[1], <<1, 2>>)>>))
                     ELSE Raises("TypeError")
           [] f.body = "sqsum" ->
                IF Bound(arguments, 3).kind = "none"
                THEN IF Bound(arguments, 1).kind = "num" /\ Bound(arguments, 2).kind = "num"
                     THEN Returns(Num(RAdd(RMul(arguments[1].v, arguments[1].v),
                                           arguments[2].v)))
                     ELSE IF /\ Bound(arguments, 1).kind = "qty" /\ arguments[1].u = ""
                             /\ Bound(arguments, 2).kind = "qty" /\ arguments[2].u = ""
                     THEN Returns(Qty(RAdd(RMul(arguments[1].v, arguments[1].v),
                                           arguments[2].v), ""))
                     ELSE Raises("TypeError")
                ELSE Returns(RetTuple(<<Num(RInt(1)), Num(RInt(2))>>))

\* Lines 357-358: what the function returned, as a sequence.
AsSequence(val) == IF val.kind = "rettuple" THEN val.items ELSE <<val>>

-----------------------------------------------------------------------------
(* Retrieval: __get_param, __eval_function, __eval.  stack holds the       *)
(* parameters whose forward evaluation is under way with the same kwargs:  *)
(* entering one of them again never returns, which Python ends with a      *)
(* RuntimeError (maximum recursion depth exceeded).                        *)

RECURSIVE get_param(_, _, _, _, _)
RECURSIVE eval_function(_, _, _, _, _)
RECURSIVE ArgValues(_, _, _, _, _, _, _, _)
RECURSIVE InverseValues(_, _, _, _, _, _, _)

\* arguments.append(v), rest being the values of the arguments that follow.
Prepend(v, rest) ==
    IF rest.err # "" THEN rest ELSE Ok(<<v.val>> \o rest.val, rest.cache)

\* One argument's value v is there: the arguments that follow are read.
ArgNext(S, v, param, args, i, kwargs, stack, skip) ==
    IF v.err # "" THEN v
    ELSE Prepend(v, ArgValues(S, v.cache, param, args, i + 1, kwargs, stack, skip))

\* The values of the arguments args[i..], in order.  With skip, the
\* argument that is param itself is left out when kwargs does not hold it.
ArgValues(S, cache, param, args, i, kwargs, stack, skip) ==
    IF i > Len(args) THEN Ok(<<>>, cache)
    ELSE IF skip /\ args[i] = param /\ ~DHas(kwargs, args[i])
    THEN ArgValues(S, cache, param, args, i + 1, kwargs, stack, skip)
    ELSE ArgNext(S, get_param(S, cache, args[i], kwargs, stack),
                 param, args, i, kwargs, stack, skip)

\* Whether arg asks for the scaled value.
WantsScaled(arg) ==
    IF Len(arg) >= 1 /\ arg[1] = "_" THEN ~default_scaled ELSE default_scaled

\* Line 280: r is the mapping __eval_function returned.
ForwardValue(S, r, name, scaled) ==
    IF r.err # "" THEN r
    ELSE get_quantity(S, r.cache, DGet(r.val, name), name, scaled)

\* __get_param for the parameter name, the view being scaled or not.
GetNamed(S, cache, name, scaled, kwargs, stack) ==
    IF ~DHas(kwargs, name) /\ name \notin DOMAIN S.parameters
    THEN Err("NotFound", cache)
    ELSE IF DHas(kwargs, name)
    THEN get_quantity(S, cache, DGet(kwargs, name), name, scaled)
    ELSE IF IsFunction(S.parameters[name])
    THEN ForwardValue(S, eval_function(S, cache, name, kwargs, stack), name, scaled)
    ELSE get_quantity(S, cache, S.parameters[name], name, scaled)

get_param(S, cache, arg, kwargs, stack) ==
    GetNamed(S, cache, get_pam_name(arg), WantsScaled(arg), kwargs, stack)

\* Line 374: inverse[arg] = q, and the arguments that follow.
InverseNext(S, q, param, args, r, i, inverse) ==
    IF q.err # "" THEN q
    ELSE InverseValues(S, q.cache, param, args, r, i + 1, DSet(inverse, args[i], q.val))

\* Lines 367-376: the mapping the inverse evaluation returns, from args[i..]
\* and the sequence r the function returned.
InverseValues(S, cache, param, args, r, i, inverse) ==
    IF i > Len(args) THEN Ok(inverse, cache)
    ELSE IF get_pam_name(args[i]) = param
    THEN InverseValues(S, cache, param, args, r, i + 1, inverse)
    ELSE IF i > Len(r) THEN Err("IndexError", cache)
    ELSE InverseNext(S, get_quantity(S, cache, r[i], get_pam_name(args[i]), FALSE),
                     param, args, r, i, inverse)

\* Line 362: {param: q}
ForwardMapping(param, q) ==
    IF q.err # "" THEN q ELSE Ok(<<<<param, q.val>>>>, q.cache)

\* Lines 360-376: r is the sequence the function returned.
Results(S, cache, param, args, kwargs, r) ==
    IF ~DHas(kwargs, param)
    THEN IF Len(r) = 0 THEN Err("IndexError", cache)
         ELSE ForwardMapping(param, get_quantity(S, cache, r[1], param, FALSE))
    ELSE InverseValues(S, cache, param, args, r, 1, <<>>)

\* Line 356: c is the outcome of r = f(*arguments).
Called(S, cache, param, args, kwargs, c) ==
    IF c.err # "" THEN Err(c.err, cache)
    ELSE Results(S, cache, param, args, kwargs, AsSequence(c.val))

\* Lines 348-356: a holds the values of the arguments.
WithArguments(S, f, param, kwargs, a) ==
    IF a.err # "" THEN a
    ELSE Called(S, a.cache, param, f.args, kwargs, Call(f, a.val))

\* Lines 342-354 for the function f that param holds.
EvalFunctionOf(S, cache, f, param, kwargs, stack) ==
    IF param \in stack THEN Err("RuntimeError", cache)
    ELSE IF /\ DHas(kwargs, param)
            /\ param \notin Range(f.args)
            /\ Prefixed(param) \notin Range(f.args)
    THEN Err("NonInvertible", cache)
    ELSE WithArguments(S, f, param, kwargs,
            ArgValues(S, cache, param, f.args, 1, kwargs, stack \cup {param}, TRUE))

\* An evaluation that reads the arguments as stored, whatever kwargs holds.
eval_function_stored(S, cache, param, kwargs, stack) ==
    EvalFunctionOf(S, cache, S.parameters[param], param, <<>>, stack)

\* __eval_function(param, **kwargs): a mapping of names to quantities.
eval_function(S, cache, param, kwargs, stack) ==
    EvalFunctionOf(S, cache, S.parameters[param], param, kwargs, stack)

\* __get_params keys the values by the names without the prefix: the value
\* passed for the i-th argument is that of the last argument of its name.
LastOf(args, i) ==
    CHOOSE j \in 1..Len(args) :
        /\ get_pam_name(args[j]) = get_pam_name(args[i])
        /\ \A k \in (j + 1)..Len(args) : get_pam_name(args[k]) # get_pam_name(args[i])

Given(args, vals) ==
    IF Len(args) = 1 THEN vals ELSE [i \in 1..Len(args) |-> vals[LastOf(args, i)]]

EvalCalled(cache, c) == IF c.err # "" THEN Err(c.err, cache) ELSE Ok(c.val, cache)

EvalWith(f, a) ==
    IF a.err # "" THEN a ELSE EvalCalled(a.cache, Call(f, Given(f.args, a.val)))

\* __eval for a function: its arguments are read with __get_params, and the
\* function is called.
eval(S, cache, f, kwargs) ==
    EvalWith(f, ArgValues(S, cache, <<>>, f.args, 1, kwargs, {}, FALSE))

-----------------------------------------------------------------------------
(* Override propagation: __process_override. *)

RECURSIVE Normalize(_, _, _, _, _, _)
RECURSIVE Expand(_, _, _, _, _, _)
RECURSIVE process_override_pass(_, _, _, _, _)

\* Line 316: kwargs[pam] = r, and the items that follow.
NormalizeNext(S, r, kwargs, items, restrict, i) ==
    IF r.err # "" THEN r
    ELSE Normalize(S, r.cache, DSet(kwargs, items[i][1], r.val), items, restrict, i + 1)

\* Overrides that are kept as given, functions among them.
NormalizeKeeps(S, cache, kwargs, items, restrict, i) == Ok(kwargs, cache)

\* Lines 309-316: the overrides that are functions are evaluated against
\* the other overrides.  items is list(kwargs.items()) as the loop began.
Normalize(S, cache, kwargs, items, restrict, i) ==
    IF i > Len(items) THEN Ok(kwargs, cache)
    ELSE IF items[i][1] \in restrict /\ IsFunction(items[i][2])
    THEN NormalizeNext(S, eval(S, cache, items[i][2], DDel(kwargs, items[i][1])),
                       kwargs, items, restrict, i)
    ELSE Normalize(S, cache, kwargs, items, restrict, i + 1)

\* vals[key] != kwargs[key], or != new[key], for a key of vals they hold.
Contradicts(vals, kwargs, new) ==
    \E key \in DKeys(vals) :
        \/ DHas(kwargs, key) /\ DGet(vals, key) # DGet(kwargs, key)
        \/ DHas(new, key) /\ DGet(vals, key) # DGet(new, key)

\* Lines 325-328: vals is what the inversion of one parameter derived.
ExpandNext(S, vals, kwargs, restrict, i, new) ==
    IF vals.err # "" THEN vals
    ELSE IF Contradicts(vals.val, kwargs, new) THEN Err("Contradiction", vals.cache)
    ELSE Expand(S, vals.cache, kwargs, restrict, i + 1, DUpdate(new, vals.val))

\* Lines 320-328: the overrides of restrict that target function-valued
\* parameters are inverted; new collects what the inversions derive.
Expand(S, cache, kwargs, restrict, i, new) ==
    IF i > Len(kwargs) THEN Ok(new, cache)
    ELSE IF /\ kwargs[i][1] \in restrict
            /\ kwargs[i][1] \in DOMAIN S.parameters
            /\ IsFunction(S.parameters[kwargs[i][1]])
    THEN ExpandNext(S, eval_function(S, cache, kwargs[i][1], kwargs, {}),
                    kwargs, restrict, i, new)
    ELSE Expand(S, cache, kwargs, restrict, i + 1, new)

\* Lines 330-331: kwargs.update(new), and the pass over the keys of new.
Merged(S, e, kwargs, pass) ==
    IF e.err # "" THEN e
    ELSE process_override_pass(S, e.cache, DUpdate(kwargs, e.val), DKeys(e.val), pass + 1)

\* Lines 318-331: n holds the overrides as the first loop left them.
Normalized(S, n, restrict, pass) ==
    IF n.err # "" THEN n
    ELSE Merged(S, Expand(S, n.cache, n.val, restrict, 1, <<>>), n.val, pass)

process_override_pass(S, cache, kwargs, restrict, pass) ==
    IF restrict = {} THEN Ok(kwargs, cache)
    ELSE IF pass > MaxPasses THEN Err("RuntimeError", cache)
    ELSE Normalized(S, Normalize(S, cache, kwargs, kwargs, restrict, 1), restrict, pass)

\* __process_override(kwargs): the propagated overrides, or the error.
process_override(S, cache, kwargs) ==
    process_override_pass(S, cache, kwargs, DKeys(kwargs), 1)

-----------------------------------------------------------------------------
(* Setting parameters: __check_valid_params, __check_function, __spec,     *)
(* __set, __update, __remove.  These return the state they leave and the   *)
(* error they raise ("" for none).                                         *)

Done(S) == [err |-> "", bad |-> {}, S |-> S]
Fail(e, S) == [err |-> e, bad |-> {}, S |-> S]
Invalid(bad, S) == [err |-> "KeyError", bad |-> bad, S |-> S]

WithCache(S, cache) == [S EXCEPT !.scaling_cache = cache]
\* The sets of sh without the name n: n holds another object, or none.
Unshared(sh, n) == {c \ {n} : c \in {d \in sh : Cardinality(d \ {n}) >= 2}}

\* The parameters that hold the object that n holds, n among them.
SharedWith(S, n) == {n} \cup UNION {c \in S.shared : n \in c}

\* The sets of sh once n holds the object of the set c.
Joined(sh, n, c) == {d \in sh : d \cap c = {}} \cup {c \cup {n}}

\* self.__parameters[param] = val, val being a new object.
WithParameter(S, param, val) ==
    [S EXCEPT !.parameters = MapSet(@, param, val), !.shared = Unshared(@, param)]

\* self.__parameters[param] = the object that name holds.
WithShared(S, param, name) ==
    IF param = name THEN S
    ELSE [S EXCEPT !.parameters = MapSet(@, param, S.parameters[name]),
                   !.shared = Joined(Unshared(@, param), param,
                                     SharedWith([S EXCEPT !.shared = Unshared(@, param)],
                                                name))]

\* A validation that reports the first offending name alone.
check_valid_params_first(kwargs) ==
    IF \A k \in DKeys(kwargs) : is_valid_param(k) THEN {}
    ELSE {kwargs[CHOOSE i \in 1..Len(kwargs) :
                    /\ ~is_valid_param(kwargs[i][1])
                    /\ \A j \in 1..(i - 1) : is_valid_param(kwargs[j][1])][1]}

\* __check_valid_params: the names the KeyError lists.
check_valid_params(kwargs) == {k \in DKeys(kwargs) : ~is_valid_param(k)}

RECURSIVE check_function(_, _, _, _)
RECURSIVE CheckArguments(_, _, _, _)
RECURSIVE CheckArgumentsShared(_, _, _, _)

\* A check that hands one and the same forbidden list to every argument:
\* the names appended for an argument and for the functions it reads are
\* there for the next one.
CheckArgumentsShared(S, args, i, forbidden) ==
    IF i > Len(args) THEN TRUE
    ELSE IF args[i] \in DOMAIN S.parameters /\ IsFunction(S.parameters[args[i]])
    THEN /\ check_function(S, args[i], S.parameters[args[i]], forbidden)
         /\ CheckArgumentsShared(S, args, i + 1,
                 forbidden \o <<args[i]>>
                     \o SelectSeq(S.parameters[args[i]].args,
                                  LAMBDA a : /\ a # args[i]
                                             /\ a \in DOMAIN S.parameters
                                             /\ IsFunction(S.parameters[a])))
    ELSE CheckArgumentsShared(S, args, i + 1, forbidden)

\* Lines 553-555: the arguments that hold functions are checked in turn.
CheckArguments(S, args, i, forbidden) ==
    IF i > Len(args) THEN TRUE
    ELSE /\ \/ args[i] \notin DOMAIN S.parameters
            \/ ~IsFunction(S.parameters[args[i]])
            \/ check_function(S, args[i], S.parameters[args[i]], forbidden)
         /\ CheckArguments(S, args, i + 1, forbidden)

\* Lines 545-555: args is the argument list without param.
CheckAgainst(S, param, args, forbidden) ==
    /\ \A a \in Range(forbidden) : a \notin Range(args)
    /\ CheckArguments(S, args, 1, Append(forbidden, param))

\* __check_function(param, f, forbidden): TRUE when it returns, FALSE when
\* it raises.  forbidden=None is the empty sequence.
check_function(S, param, f, forbidden) ==
    CheckAgainst(S, param, SelectSeq(f.args, LAMBDA a : a # param), forbidden)

\* Lines 497-498: the quantity held for arg takes the unit.
\* The object is changed in place: every parameter that holds it shows it.
Retagged(params, args, unit) ==
    [a \in DOMAIN params |->
        IF a \in args /\ IsQuantity(params[a]) THEN Qty(params[a].v, unit)
        ELSE params[a]]

\* __spec for one parameter with a unit given by name.
spec(S, arg, unit) ==
    IF ~get_unit_known(unit) THEN Fail("UnitError", S)
    ELSE Done([S EXCEPT !.parameters_spec = MapSet(@, arg, unit),
                        !.parameters = Retagged(@, SharedWith(S, arg), unit)])

\* Lines 463-464 and 466-467: the function is checked and stored, and the
\* unit declared.
SetFunction(S, param, f, unit) ==
    IF ~check_function(S, param, f, <<>>) THEN Fail("Recursion", S)
    ELSE spec(WithParameter(S, param, f), param, unit)

\* Lines 469-471: q is what __get_quantity returned.
SetQuantity(S, param, q) ==
    IF q.err # "" THEN Fail(q.err, WithCache(S, q.cache))
    ELSE IF IsQuantity(q.val)
    THEN spec(WithParameter(WithCache(S, q.cache), param, q.val), param, q.val.u)
    ELSE Done(WithParameter(WithCache(S, q.cache), param, q.val))

\* Lines 393-394 and 469-471: the value is the Quantity object that p('_name')
\* returned, the one the parameter name holds; it is stored as it is.
SetStored(S, param, name) ==
    IF name \notin DOMAIN S.parameters \/ ~IsQuantity(S.parameters[name])
    THEN Fail("NotFound", S)
    ELSE spec(WithShared(S, param, name), param, S.parameters[name].u)

\* The body of the loop of __set for one parameter.
set_one(S, param, val) ==
    IF val.kind = "fn" THEN SetFunction(S, param, val, "")
    ELSE IF val.kind = "fntuple" THEN SetFunction(S, param, val.f, val.u)
    ELSE IF val.kind = "stored" THEN SetStored(S, param, val.of)
    ELSE SetQuantity(S, param, get_quantity(S, S.scaling_cache, val, param, FALSE))

RECURSIVE SetLoop(_, _, _)

SetNext(r, kwargs, i) == IF r.err # "" THEN r ELSE SetLoop(r.S, kwargs, i + 1)

\* Lines 460-474
SetLoop(S, kwargs, i) ==
    IF i > Len(kwargs) THEN Done(S)
    ELSE SetNext(set_one(S, kwargs[i][1], kwargs[i][2]), kwargs, i)

\* __set(**kwargs)
set(S, kwargs) ==
    IF check_valid_params(kwargs) # {} THEN Invalid(check_valid_params(kwargs), S)
    ELSE SetLoop(S, kwargs, 1)

RECURSIVE UpdateLoop(_, _, _)

UpdateNext(r, kwargs, i) == IF r.err # "" THEN r ELSE UpdateLoop(r.S, kwargs, i + 1)

\* An update that stores every propagated override.
UpdateLoopStoresAll(S, kwargs, i) ==
    IF i > Len(kwargs) THEN Done(S)
    ELSE UpdateNext(set(S, <<kwargs[i]>>), kwargs, i)

\* Lines 482-484: the propagated overrides are stored, but for those whose
\* parameter holds a function.
UpdateLoop(S, kwargs, i) ==
    IF i > Len(kwargs) THEN Done(S)
    ELSE IF \/ kwargs[i][1] \notin DOMAIN S.parameters
            \/ ~IsFunction(S.parameters[kwargs[i][1]])
    THEN UpdateNext(set(S, <<kwargs[i]>>), kwargs, i)
    ELSE UpdateLoop(S, kwargs, i + 1)

\* Lines 480-484: po is what __process_override left of kwargs.
Propagated(S, po) ==
    IF po.err # "" THEN Fail(po.err, WithCache(S, po.cache))
    ELSE UpdateLoop(WithCache(S, po.cache), po.val, 1)

\* __update(**kwargs)
update(S, kwargs) ==
    IF check_valid_params(kwargs) # {} THEN Invalid(check_valid_params(kwargs), S)
    ELSE Propagated(S, process_override(S, S.scaling_cache, kwargs))

RECURSIVE SpecLoop(_, _, _)

SpecNext(r, kwargs, i) == IF r.err # "" THEN r ELSE SpecLoop(r.S, kwargs, i + 1)

\* Lines 495-498
SpecLoop(S, kwargs, i) ==
    IF i > Len(kwargs) THEN Done(S)
    ELSE SpecNext(spec(S, kwargs[i][1], kwargs[i][2]), kwargs, i)

\* __and__(other) for a dict of units given by name.
and(S, other) == SpecLoop(S, other, 1)

\* A removal that forgets the value and keeps the unit spec.
remove_value_only(S, param) ==
    Done([S EXCEPT !.parameters = MapDel(@, param), !.shared = Unshared(@, param)])

\* __remove(param)
remove(S, param) ==
    Done([S EXCEPT !.parameters = MapDel(@, param),
                   !.parameters_spec = MapDel(@, param),
                   !.shared = Unshared(@, param)])

-----------------------------------------------------------------------------
(* Scaling declarations: __scaling_set.  A request is a dict of            *)
(* dimension -> value, a pair (dimensions, factor), or something else.     *)

ScalingDict(items) == [kind |-> "dict", items |-> items]
ScalingPair(dims, factor) == [kind |-> "pair", dims |-> dims, factor |-> factor]
ScalingOther == [kind |-> "other"]

RECURSIVE ScalingLoop(_, _, _)

\* A batch that ends at the first entry of the wrong dimension.
ScalingNextEnds(S, scale, items, i) ==
    IF scale.err # "" THEN Fail(scale.err, WithCache(S, scale.cache))
    ELSE IF ~IsQuantity(scale.val) THEN Fail("AttributeError", WithCache(S, scale.cache))
    ELSE IF UnitDimensions(scale.val.u) = OneDimension(items[i][1])
    THEN ScalingLoop([S EXCEPT !.scaling_cache = scale.cache,
                               !.scalings = MapSet(@, items[i][1], scale.val)],
                     items, i + 1)
    ELSE Done(WithCache(S, scale.cache))

\* Lines 210-213: scale is what __get_quantity returned for the dimension.
ScalingNext(S, scale, items, i) ==
    IF scale.err # "" THEN Fail(scale.err, WithCache(S, scale.cache))
    ELSE IF ~IsQuantity(scale.val) THEN Fail("AttributeError", WithCache(S, scale.cache))
    ELSE IF UnitDimensions(scale.val.u) = OneDimension(items[i][1])
    THEN ScalingLoop([S EXCEPT !.scaling_cache = scale.cache,
                               !.scalings = MapSet(@, items[i][1], scale.val)],
                     items, i + 1)
    ELSE ScalingLoop(WithCache(S, scale.cache), items, i + 1)

\* Lines 207-215
ScalingLoop(S, items, i) ==
    IF i > Len(items) THEN Done(S)
    ELSE IF items[i][1] \notin Dims THEN ScalingLoop(S, items, i + 1)
    ELSE ScalingNext(S, get_quantity(S, S.scaling_cache, items[i][2], items[i][1], FALSE),
                     items, i)

\* __scaling_set(kwargs)
scaling_set(S, kwargs) ==
    CASE kwargs.kind = "dict" -> ScalingLoop(WithCache(S, EmptyMap), kwargs.items, 1)
      [] kwargs.kind = "pair" ->
            Done([S EXCEPT !.scaling_cache = EmptyMap,
                           !.unit_scalings = Append(@, <<kwargs.dims, kwargs.factor>>)])
      [] kwargs.kind = "other" -> Fail("ValueError", WithCache(S, EmptyMap))

-----------------------------------------------------------------------------
(* Queries: __get and __get_params. *)

RECURSIVE GetParams(_, _, _, _, _, _)

\* Line 253: rv[name without prefix] = v, and the names that follow.
GetParamsNext(S, v, args, i, kwargs, rv) ==
    IF v.err # "" THEN v
    ELSE GetParams(S, v.cache, args, i + 1, kwargs, DSet(rv, get_pam_name(args[i]), v.val))

\* Lines 251-255
GetParams(S, cache, args, i, kwargs, rv) ==
    IF i > Len(args) THEN Ok(rv, cache)
    ELSE GetParamsNext(S, get_param(S, cache, args[i], kwargs, {}), args, i, kwargs, rv)

\* __get_params(*args, **kwargs)
get_params(S, cache, args, kwargs) ==
    IF Len(args) = 1 THEN get_param(S, cache, args[1], kwargs, {})
    ELSE GetParams(S, cache, args, 1, kwargs, <<>>)

\* The outcome of a query: the error, the value returned and the state left.
Answer(S, r) == [err |-> r.err, val |-> r.val, S |-> WithCache(S, r.cache)]

\* Lines 242-244: po is what __process_override left of kwargs.
Answered(S, args, po) ==
    IF po.err # "" THEN Answer(S, po)
    ELSE Answer(S, get_params(S, po.cache, args, po.val))

\* A query that stores its overrides before it answers.
get_storing(S, args, kwargs) ==
    Answered(update(S, kwargs).S, args, process_override(S, S.scaling_cache, kwargs))

\* __get(*args, **kwargs)
get(S, args, kwargs) == Answered(S, args, process_override(S, S.scaling_cache, kwargs))

-----------------------------------------------------------------------------
(* The object and the calls made on it. *)

State ==
    [parameters |-> parameters, parameters_spec |-> parameters_spec,
     scalings |-> scalings, unit_scalings |-> unit_scalings,
     scaling_cache |-> scaling_cache, shared |-> shared]

\* __init__ with the default arguments.
Init ==
    /\ parameters = EmptyMap
    /\ parameters_spec = EmptyMap
    /\ scalings = EmptyMap
    /\ unit_scalings = <<>>
    /\ scaling_cache = EmptyMap
    /\ shared = {}
    /\ last = [op |-> "init", err |-> "", bad |-> {}]

\* The magnitudes held stay within the bound.
Small(held) ==
    \A p \in DOMAIN held :
        IsQuantity(held[p]) =>
            /\ Abs(held[p].v[1]) <= MaxMagnitude
            /\ held[p].v[2] <= MaxMagnitude

\* The call op ended with the outcome r: the state it left is the object's.
Becomes(op, r, bad) ==
    /\ Small(r.S.parameters)
    /\ Small(r.S.scalings)
    /\ parameters' = r.S.parameters
    /\ parameters_spec' = r.S.parameters_spec
    /\ scalings' = r.S.scalings
    /\ unit_scalings' = r.S.unit_scalings
    /\ scaling_cache' = r.S.scaling_cache
    /\ shared' = r.S.shared
    /\ last' = [op |-> op, err |-> r.err, bad |-> bad]

\* The same for the calls that report names.
Ended(op, r) == Becomes(op, r, r.bad)

\* p << other
LShift(other) == Ended("lshift", set(State, other))

\* p(**kwargs)
Update(kwargs) == Ended("update", update(State, kwargs))

\* p(*args, **kwargs) with args
Get(args, kwargs) == Becomes("get", get(State, args, kwargs), {})

\* p & other
And(other) == Becomes("and", and(State, other), {})

\* p - other
Sub(other) == Becomes("sub", remove(State, other), {})

\* p * other
Mul(other) == Becomes("mul", scaling_set(State, other), {})

-----------------------------------------------------------------------------
(* The requests of the dependency specification. *)

\* lambda x: x**2
FSqX == Fn("sq", <<nx>>, 0)
\* lambda y: y**2
FSqY == Fn("sq", <<ny>>, 0)
\* lambda x, y=None: 2*x if y is None else (y/2,)
FDblXY == Fn("dbl", <<nx, ny>>, 1)
\* lambda _x, y=None: 2*_x if y is None else (y/2,)
FDblUXY == Fn("dbl", <<n_x, ny>>, 1)
\* lambda y, z=None: 2*y if z is None else (z/2,)
FDblYZ == Fn("dbl", <<ny, nz>>, 1)
\* lambda _y, z=None: 2*_y if z is None else (z/2,)
FDblUYZ == Fn("dbl", <<n_y, nz>>, 1)
\* lambda _y, x=None: 2*_y if x is None else (x/2,)
FDblUYX == Fn("dbl", <<n_y, nx>>, 1)

N(v) == Num(RInt(v))

\* Both orders of the keys of a dict of two entries.
Orders(a, b) == {<<a, b>>, <<b, a>>}

\* x- , a name that is no identifier
nxd == <<"x", "-">>

\* Requests with names that are no identifiers.
BadNameRequests ==
    Orders(<<nx, N(1)>>, <<n1x, N(1)>>)
        \cup {<<<<n1x, N(1)>>, <<ny, N(1)>>, <<nxd, N(1)>>>>}

\* Requests with a tuple of three elements.
BadTupleRequests == Orders(<<ny, N(1)>>, <<nx, Tuple(RInt(1), "m", 3)>>)

LShiftRequests ==
    {<<<<ny, FSqX>>>>, <<<<ny, FDblUXY>>>>, <<<<nx, FSqY>>>>, <<<<nx, FDblUYX>>>>,
     <<<<ny, FnTuple(FSqX, "bogus")>>>>}
        \cup BadTupleRequests
        \cup BadNameRequests

UpdateRequests ==
    {<<<<nx, N(v)>>>> : v \in 1..MaxVal}
        \cup {<<<<ny, N(2)>>>>}
        \cup BadTupleRequests
        \cup BadNameRequests

GetArgs == {<<ny>>, <<n_x>>, <<nx, ny>>}

GetOverrides ==
    {<<>>, <<<<ny, N(2)>>>>} \cup {<<<<nx, N(v)>>>> : v \in 1..MaxVal}

Next ==
    \/ \E other \in LShiftRequests : LShift(other)
    \/ \E kwargs \in UpdateRequests : Update(kwargs)
    \/ \E args \in GetArgs, kwargs \in GetOverrides : Get(args, kwargs)
    \/ \E other \in {nx, ny} : Sub(other)

Spec == Init /\ [][Next]_vars

-----------------------------------------------------------------------------
(* The requests of the chain specification: z is defined by y, and y by x. *)

\* lambda x, y, z=None: x**2+y if z is None else (1,2)
FSqSumXYZ == Fn("sqsum", <<nx, ny, nz>>, 1)

\* lambda _x, _y, z=None: _x**2+_y if z is None else (1,2)
FSqSumUXYZ == Fn("sqsum", <<n_x, n_y, nz>>, 1)

\* lambda y=None, x=None: 2*x if y is None else (y/2,)
FDblFirstYX == Fn("dblfirst", <<ny, nx>>, 2)

\* The last four make diamonds and cycles: z = x**2 next to y = x**2,
\* w = lambda y, z, w=None: y**2+z if w is None else (1,2), x = w**2 and
\* x = v**2.
ChainInstalls ==
    {<<<<ny, FSqX>>>>, <<<<ny, FDblXY>>>>, <<<<ny, FDblUXY>>>>, <<<<ny, FDblFirstYX>>>>,
     <<<<nz, FDblYZ>>>>, <<<<nz, FDblUYZ>>>>, <<<<nz, FSqSumXYZ>>>>, <<<<nz, FSqSumUXYZ>>>>,
     <<<<nz, FSqX>>>>, <<<<<<"w">>, Fn("sqsum", <<ny, nz, <<"w">>>>, 1)>>>>,
     <<<<nx, Fn("sq", <<<<"w">>>>, 0)>>>>, <<<<nx, Fn("sq", <<<<"v">>>>, 0)>>>>}

ChainOverrides ==
    {<<<<nz, N(2)>>>>} \cup Orders(<<nz, N(2)>>, <<ny, N(MaxVal)>>)

NextChain ==
    \/ \E other \in ChainInstalls : LShift(other)
    \/ \E kwargs \in {<<<<nx, N(1)>>>>} \cup ChainOverrides : Update(kwargs)
    \/ \E kwargs \in ChainOverrides : Get(<<nx>>, kwargs)
    \/ \E other \in {ny, nz} : Sub(other)

SpecChain == Init /\ [][NextChain]_vars

-----------------------------------------------------------------------------
(* The requests of the scaling specification. *)

\* The last one declares a unit for 1x, a name that is no identifier.
UnitRequests ==
    {<<<<length, "m">>>>, <<<<nx, "m">>>>, <<<<nx, "bogus">>>>, <<<<n1x, "ms">>>>}

ScalingValues ==
    UNION {{Tuple(RInt(v), "m", 2), Qty(RInt(v), "m"), N(v)} : v \in 2..MaxScale}

ScalingRequests ==
    {ScalingDict(<<<<length, v>>>>) : v \in ScalingValues}
        \cup {ScalingDict(items) :
                items \in Orders(<<length, N(2)>>, <<time, Tuple(RInt(2), "s", 2)>>)}
        \cup {ScalingDict(<<<<time, Tuple(RInt(2), "m", 2)>>, <<nx, N(2)>>,
                            <<length, Tuple(RInt(2), "m", 2)>>>>),
              ScalingPair(OneDimension(length), RInt(2)),
              ScalingOther}

\* x followed by a newline, a name that the "$" of the pattern lets through
nxn == <<"x", "\n">>

ScalingAssignments ==
    {<<<<nx, Tuple(RInt(1), "m", 2)>>>>, <<<<nx, N(1)>>>>, <<<<nxn, N(1)>>>>}

ScalingQueries == {<<nx>>, <<n_x>>}

NextScaling ==
    \/ \E other \in ScalingRequests :
          /\ other.kind = "pair" => Len(unit_scalings) < MaxOverrides
          /\ Mul(other)
    \/ \E other \in UnitRequests : And(other)
    \/ \E other \in ScalingAssignments : LShift(other)
    \/ \E kwargs \in ScalingAssignments : Update(kwargs)
    \/ \E args \in ScalingQueries : Get(args, <<>>)
    \/ \E other \in {nx, nxn} : Sub(other)

SpecScaling == Init /\ [][NextScaling]_vars

-----------------------------------------------------------------------------
(* The requests of the unit specification: units are declared for x and y, *)
(* with and without values.                                                *)

UnitDeclarations == {<<<<nx, "m">>>>, <<<<ny, "s">>>>, <<<<ny, "m">>>>}

\* Assignments that give no unit.
UnitlessAssignments == {<<<<nx, N(2)>>>>, <<<<ny, N(2)>>>>, <<<<ny, FSqX>>>>}

\* The last one is p << {'y': p('_x')}.
UnitAssignments ==
    UnitlessAssignments
        \cup {<<<<nx, Tuple(RInt(1), "m", 2)>>>>, <<<<ny, Stored(nx)>>>>}

NextUnits ==
    \/ \E other \in UnitDeclarations : And(other)
    \/ \E other \in UnitAssignments : LShift(other)
    \/ \E kwargs \in UnitlessAssignments : Update(kwargs)
    \/ \E args \in {<<ny>>, <<n_x>>} : Get(args, <<>>)
    \/ \E other \in {nx, ny} : Sub(other)

SpecUnits == Init /\ [][NextUnits]_vars

-----------------------------------------------------------------------------
(* The requests of the override specification: unit-scaling overrides are  *)
(* declared one after the other, for the same dimensions and for others,   *)
(* next to a basis scaling of length.                                      *)

NextOverrides ==
    \/ \E dim \in Dims, f \in 2..(MaxScale + 1) :
          /\ Len(unit_scalings) <= MaxOverrides
          /\ dim = time => f = 2
          /\ Mul(ScalingPair(OneDimension(dim), RInt(f)))
    \/ \E v \in {Tuple(RInt(2), "m", 2), N(2)} : Mul(ScalingDict(<<<<length, v>>>>))
    \/ And(<<<<length, "m">>>>)
    \/ LShift(<<<<nx, Tuple(RInt(1), "m", 2)>>>>)
    \/ \E args \in ScalingQueries : Get(args, <<>>)

SpecOverrides == Init /\ [][NextOverrides]_vars

-----------------------------------------------------------------------------
(* Properties. *)

\* C1: every entry of the scaling cache is the factor that a recomputation
\* from the present basis scalings and unit-scaling overrides gives for its
\* unit, after any sequence of scaling declarations, unit declarations,
\* assignments, removals and queries.
CacheMatchesRecomputation ==
    \A u \in DOMAIN scaling_cache : scaling_cache[u] = unit_scaling_direct(State, u)

\* C2: an assignment request (left-shift or durable update) that fails, for
\* whatever reason, leaves the value table and the unit-spec table as they
\* were before the request.
AssignmentAllOrNothing ==
    [][(last'.op \in {"lshift", "update"} /\ last'.err # "")
          => UNCHANGED <<parameters, parameters_spec>>]_vars

\* C3: the dependency graph among the function-valued parameters, a function
\* depending on its argument names without the "_" prefix other than the
\* parameter itself, has no cycle.
DependencyGraphAcyclic ==
    LET DependsOn(p) ==
            IF p \in DOMAIN parameters /\ IsFunction(parameters[p])
            THEN {get_pam_name(a) : a \in Range(parameters[p].args)} \ {p}
            ELSE {}
        Twice(p) == UNION {DependsOn(q) : q \in DependsOn(p)}
    IN  \A p \in DOMAIN parameters : p \notin DependsOn(p) \cup Twice(p)

\* C4: a propagation that ends without error has given no parameter two
\* unequal values: the keys of the propagated override set that name the
\* same parameter, with or without the "_" prefix, hold the same magnitude.
ContradictionDetected ==
    \A kwargs \in ChainOverrides :
        LET po == process_override(State, scaling_cache, kwargs)
        IN  po.err = "" =>
                \A i, j \in 1..Len(po.val) :
                    get_pam_name(po.val[i][1]) = get_pam_name(po.val[j][1])
                        => po.val[i][2].v = po.val[j][2].v

\* C5: with z holding a function invertible in y, y a function invertible in
\* x, and x a value, the propagation of an override of z that ends without
\* error holds a value for y and for x, whether the functions declare their
\* arguments with or without the "_" prefix.
ChainFullyPropagated ==
    (/\ {nx, ny, nz} \subseteq DOMAIN parameters
     /\ parameters[nz] \in {FDblYZ, FDblUYZ}
     /\ parameters[ny] \in {FDblXY, FDblUXY}
     /\ IsQuantity(parameters[nx]))
        => LET po == process_override(State, scaling_cache, <<<<nz, N(2)>>>>)
           IN  po.err = "" => DHas(po.val, ny) /\ DHas(po.val, nx)

\* C6: with y holding the function x**2, a read of y returns the square of
\* the value x holds at the time of the read, and a read of y with a
\* temporary override of x returns the square of the override.
AlwaysDependsNeverStale ==
    (ny \in DOMAIN parameters /\ parameters[ny] = FSqX)
        => /\ (nx \in DOMAIN parameters /\ IsQuantity(parameters[nx]))
                => LET r == get(State, <<ny>>, <<>>)
                   IN  r.err = "" /\ r.val = Num(RMul(parameters[nx].v, parameters[nx].v))
           /\ (nx \in DOMAIN parameters => IsQuantity(parameters[nx]))
                => \A v \in 1..MaxVal :
                      LET r == get(State, <<ny>>, <<<<nx, N(v)>>>>)
                      IN  r.err = "" /\ r.val = N(v * v)

\* C7: a query, with or without temporary overrides and whether it succeeds
\* or fails, leaves the value table, the unit-spec table, the basis scalings
\* and the unit-scaling overrides unchanged.
QueryLeavesTablesUnchanged ==
    [][last'.op = "get"
          => UNCHANGED <<parameters, parameters_spec, scalings, unit_scalings>>]_vars

\* C8: with y holding a function that declares neither y nor _y, a durable
\* update of z whose inversion derives a value for y fails with the
\* non-invertible error and changes nothing stored.
NonInvertibleRejected ==
    (/\ {nx, ny, nz} \subseteq DOMAIN parameters
     /\ parameters[nz] \in {FDblYZ, FDblUYZ}
     /\ parameters[ny] = FSqX
     /\ IsQuantity(parameters[nx]))
        => LET r == update(State, <<<<nz, N(2)>>>>)
           IN  /\ r.err = "NonInvertible"
               /\ r.S.parameters = parameters
               /\ r.S.parameters_spec = parameters_spec

\* C9: an assignment request (left-shift or durable update) with a name that
\* is no identifier is rejected with all the offending names reported
\* together, and nothing is stored for any name of the request.
InvalidNameRejected ==
    \A kwargs \in BadNameRequests :
        /\ set(State, kwargs) =
              [err |-> "KeyError", bad |-> {k \in DKeys(kwargs) : ~IsIdentifier(k)},
               S |-> State]
        /\ update(State, kwargs) =
              [err |-> "KeyError", bad |-> {k \in DKeys(kwargs) : ~IsIdentifier(k)},
               S |-> State]

\* C10: every key of the value table and of the unit-spec table is an
\* identifier.
StoredNamesAreIdentifiers ==
    \A k \in DOMAIN parameters \cup DOMAIN parameters_spec : IsIdentifier(k)

UnitDeclarationFrame ==
    [][(last'.op = "and" /\ last'.err = "") =>
          \E name \in {nx, ny}, unit \in UnitNames :
              /\ parameters_spec' = MapSet(parameters_spec, name, unit)
              /\ DOMAIN parameters' = DOMAIN parameters
              /\ \A other \in DOMAIN parameters \ {name} :
                    parameters'[other] = parameters[other]
              /\ name \in DOMAIN parameters =>
                    parameters'[name] =
                        IF IsQuantity(parameters[name])
                        THEN Qty(parameters[name].v, unit)
                        ELSE parameters[name]]_vars

\* C13: an assignment that gives no unit (a bare number or a function, by
\* left-shift or by durable update) leaves the unit spec of the parameter as
\* it was, and gives it the dimensionless unit when it had none.
UnitSpecKept ==
    \A kwargs \in UnitlessAssignments :
        /\ set(State, kwargs).err = "" =>
              set(State, kwargs).S.parameters_spec[kwargs[1][1]] =
                  IF kwargs[1][1] \in DOMAIN parameters_spec
                  THEN parameters_spec[kwargs[1][1]] ELSE ""
        /\ (update(State, kwargs).err = ""
                /\ kwargs[1][1] \in DOMAIN update(State, kwargs).S.parameters_spec) =>
              update(State, kwargs).S.parameters_spec[kwargs[1][1]] =
                  IF kwargs[1][1] \in DOMAIN parameters_spec
                  THEN parameters_spec[kwargs[1][1]] ELSE ""

\* C14: with the basis scaling of length being b metres and no unit-scaling
\* override declared, x assigned (1, 'm') reads back 1 m unit-aware and 1 / b
\* scaled; and x assigned the bare number 2 under a declared unit reads
\* back 2 scaled.
ScaledViewReadsBack ==
    (length \in DOMAIN scalings /\ scalings[length].u = "m" /\ unit_scalings = <<>>)
        => /\ LET w == set(State, <<<<nx, Tuple(RInt(1), "m", 2)>>>>)
               IN  /\ w.err = ""
                   /\ get(w.S, <<n_x>>, <<>>).val = Qty(RInt(1), "m")
                   /\ get(w.S, <<nx>>, <<>>).val = Num(RDiv(RInt(1), scalings[length].v))
           /\ nx \in DOMAIN parameters_spec =>
                 LET w == set(State, <<<<nx, N(2)>>>>)
                 IN  w.err = "" => get(w.S, <<nx>>, <<>>).val = N(2)

\* C15: a basis-scaling declaration of several dimensions does not raise;
\* an entry whose key is no dimension, or whose value has not the dimension
\* of its key alone, leaves the scaling of that dimension as it was, and
\* every other entry of the batch is applied.
BatchSkipsInvalidEntries ==
    \A req \in {q \in ScalingRequests : q.kind = "dict"} :
        LET r == scaling_set(State, req)
            UnitOf(item) ==
                IF item[2].kind = "num" THEN SpecUnit(State, item[1]) ELSE item[2].u
            Valid(item) ==
                item[1] \in Dims /\ UnitDimensions(UnitOf(item)) = OneDimension(item[1])
        IN  /\ r.err = ""
            /\ \A i \in 1..Len(req.items) :
                  Valid(req.items[i]) =>
                      /\ req.items[i][1] \in DOMAIN r.S.scalings
                      /\ r.S.scalings[req.items[i][1]].u = UnitOf(req.items[i])
                      /\ req.items[i][2].kind # "num" =>
                            r.S.scalings[req.items[i][1]].v = req.items[i][2].v
            /\ \A d \in (DOMAIN r.S.scalings \cup DOMAIN scalings) :
                  (\A i \in 1..Len(req.items) :
                        req.items[i][1] = d => ~Valid(req.items[i]))
                      => d \in DOMAIN scalings /\ d \in DOMAIN r.S.scalings
                            /\ r.S.scalings[d] = scalings[d]

\* C16: the function a parameter holds is replaced or dropped only by a
\* left-shift assignment or a removal: every other call, a durable update
\* that targets the parameter directly or through a derived value among
\* them, leaves it installed; and a left-shift assignment of a concrete
\* value to a parameter that holds a function makes it concrete.
FunctionKeptButByLShiftOrRemoval ==
    [][/\ last'.op \notin {"lshift", "sub"} =>
             \A n \in DOMAIN parameters :
                 IsFunction(parameters[n]) =>
                     n \in DOMAIN parameters' /\ parameters'[n] = parameters[n]
       /\ \A n \in DOMAIN parameters :
             IsFunction(parameters[n]) =>
                 LET r == set(State, <<<<n, N(2)>>>>)
                 IN  r.err = "" /\ r.S.parameters[n] = Qty(RInt(2), "")]_vars

\* C17, as stated: a durable update p(y = function of x) that succeeds
\* leaves y function-valued, as a left-shift assignment does.
UpdateInstallsFunction ==
    LET u == update(State, <<<<ny, FSqX>>>>)
    IN  u.err = "" => IsFunction(u.S.parameters[ny])

\* C17, amended: a left-shift assignment of a function stores the function;
\* a durable update p(y = function of x) evaluates the function once and,
\* y holding no function, stores the value as a quantity: what reading y
\* returns is the same after a later change of x.
UpdateStoresCurrentValue ==
    LET s == set(State, <<<<ny, FSqX>>>>)
        u == update(State, <<<<ny, FSqX>>>>)
        later == set(u.S, <<<<nx, N(MaxVal)>>>>)
    IN  /\ s.err = "" => s.S.parameters[ny] = FSqX
        /\ u.err = "" =>
              /\ ny \in DOMAIN parameters /\ IsFunction(parameters[ny])
                    => u.S.parameters[ny] = parameters[ny]
              /\ ~(ny \in DOMAIN parameters /\ IsFunction(parameters[ny])) =>
                    /\ IsQuantity(u.S.parameters[ny])
                    /\ later.err = ""
                    /\ get(later.S, <<ny>>, <<>>).val = get(u.S, <<ny>>, <<>>).val
                    /\ get(later.S, <<n_y>>, <<>>).val = get(u.S, <<n_y>>, <<>>).val

\* C19: no key that override propagation adds to the overrides begins with
\* "_", and no name that a durable update stores does.
DerivedKeysUnprefixed ==
    /\ \A kwargs \in ChainOverrides :
          LET po == process_override(State, scaling_cache, kwargs)
          IN  po.err = "" => \A key \in DKeys(po.val) : key[1] # "_"
    /\ \A name \in DOMAIN parameters : name[1] # "_"

\* C20: in the inverse evaluation of a parameter whose function returns one
\* element for each argument but the target, the i-th element returned
\* becomes the value of the i-th argument that is not the target, wherever
\* the target stands in the declaration.
InverseMatchesOtherArguments ==
    \A n \in DOMAIN parameters :
        IsFunction(parameters[n]) =>
            LET f == parameters[n]
                kwargs == <<<<n, N(2)>>>>
                IsOther(arg) == get_pam_name(arg) # n
                others == SelectSeq(f.args, IsOther)
                a == ArgValues(State, scaling_cache, n, f.args, 1, kwargs, {n}, TRUE)
                c == Call(f, a.val)
                e == eval_function(State, scaling_cache, n, kwargs, {})
                Key(arg) == IF DHas(e.val, arg) THEN arg ELSE get_pam_name(arg)
            IN  (a.err = "" /\ c.err = "" /\ Len(AsSequence(c.val)) = Len(others)
                    /\ Len(others) < Len(f.args)) =>
                    /\ e.err = ""
                    /\ \A i \in 1..Len(others) :
                          /\ DHas(e.val, Key(others[i]))
                          /\ DGet(e.val, Key(others[i]))
                                = get_quantity(State, scaling_cache, AsSequence(c.val)[i],
                                               get_pam_name(others[i]), FALSE).val

\* C18: z holding a function invertible in x and y, declared with x, y or
\* with _x, _y, and x and y holding values: after the durable update z = 2
\* the stored values of x and y are those the inverse branch returned;
\* assigning x its derived value again leaves y as it is, and reading y
\* gives the value derived from z = 2.
InverseConsistent ==
    (/\ nz \in DOMAIN parameters /\ parameters[nz] \in {FSqSumXYZ, FSqSumUXYZ}
     /\ nx \in DOMAIN parameters /\ IsQuantity(parameters[nx])
     /\ ny \in DOMAIN parameters /\ IsQuantity(parameters[ny])) =>
        LET kwargs == <<<<nz, N(2)>>>>
            inv == eval_function(State, scaling_cache, nz, kwargs, {})
            Derived(name) ==
                IF DHas(inv.val, name) THEN DGet(inv.val, name)
                ELSE DGet(inv.val, Prefixed(name))
            u == update(State, kwargs)
            again == update(u.S, <<<<nx, Derived(nx)>>>>)
        IN  /\ inv.err = "" /\ u.err = ""
            /\ u.S.parameters[nx] = Derived(nx)
            /\ u.S.parameters[ny] = Derived(ny)
            /\ again.err = ""
            /\ again.S.parameters[ny] = u.S.parameters[ny]
            /\ get(again.S, <<n_y>>, <<>>).val = Derived(ny)

\* C21: every installed function having passed __check_function, every
\* query and every override propagation of a durable update ends: none
\* recurses without bound, with prefixed argument declarations too.
EveryEvaluationEnds ==
    /\ \A args \in GetArgs, kwargs \in GetOverrides :
          get(State, args, kwargs).err # "RuntimeError"
    /\ \A kwargs \in UpdateRequests :
          process_override(State, scaling_cache, kwargs).err # "RuntimeError"

\* C22: the unit-scaling override of a unit is the factor of the first
\* entry declared whose dimensions are exactly the unit's, and 1 when there
\* is none; declaring a second override for dimensions that have one
\* changes no scaling factor: neither the override of any unit nor the
\* factor that __unit_scaling returns for it.
FirstOverrideWins ==
    [][LET After == [parameters |-> parameters', parameters_spec |-> parameters_spec',
                     scalings |-> scalings', unit_scalings |-> unit_scalings',
                     scaling_cache |-> scaling_cache', shared |-> shared']
           Matches(u) == {i \in 1..Len(unit_scalings') :
                              unit_scalings'[i][1] = UnitDimensions(u)}
           First(u) == CHOOSE i \in Matches(u) : \A j \in Matches(u) : i <= j
       IN  /\ \A u \in UnitNames :
                 unit_scale(After, u)
                    = IF Matches(u) = {} THEN RInt(1) ELSE unit_scalings'[First(u)][2]
           /\ (/\ last'.op = "mul"
               /\ Len(unit_scalings') = Len(unit_scalings) + 1
               /\ \E i \in 1..Len(unit_scalings) :
                     unit_scalings[i][1] = unit_scalings'[Len(unit_scalings')][1]) =>
                 \A u \in UnitNames :
                     /\ unit_scale(After, u) = unit_scale(State, u)
                     /\ unit_scaling(After, scaling_cache', u).val
                           = unit_scaling(State, scaling_cache, u).val]_vars

\* C23: __check_function rejects only real cycles: the install of a function
\* is accepted whenever, the function being held by its parameter, no chain
\* of function-valued arguments that starts at the parameter comes back to
\* a parameter it has passed; so a diamond is accepted, and so is a
\* function that names its own parameter as the inverse argument.
OnlyCyclesRejected ==
    \A req \in ChainInstalls :
        LET n == req[1][1]
            Held(p) == IF p = n THEN req[1][2] ELSE parameters[p]
            DependsOn(p) ==
                IF p = n \/ (p \in DOMAIN parameters /\ IsFunction(parameters[p]))
                THEN {get_pam_name(a) : a \in Range(Held(p).args)} \ {p}
                ELSE {}
            Further(P) == P \cup UNION {DependsOn(q) : q \in P}
            ReachedFrom(p) == Further(Further(Further(Further(DependsOn(p)))))
        IN  (\A m \in {n} \cup ReachedFrom(n) : m \notin ReachedFrom(m))
                => set(State, req).err = ""

-----------------------------------------------------------------------------
(* States in which the cases of the properties have happened. *)

\* y holds x**2, x holds 3, and a read has just returned: y reads 9.
StaleWitness ==
    /\ last.op = "get" /\ last.err = ""
    /\ ny \in DOMAIN parameters /\ parameters[ny] = FSqX
    /\ nx \in DOMAIN parameters /\ parameters[nx] = Qty(RInt(3), "")
    /\ get(State, <<ny>>, <<>>).val = N(9)
    /\ get(State, <<ny>>, <<<<nx, N(2)>>>>).val = N(4)

\* A query with an override of the function-valued y has just failed, with
\* x and y stored.
QueryWitness ==
    /\ last.op = "get" /\ last.err = "NonInvertible"
    /\ ny \in DOMAIN parameters /\ parameters[ny] = FSqX
    /\ nx \in DOMAIN parameters /\ IsQuantity(parameters[nx])

\* A durable update naming 1x, y and x- has just been rejected, both
\* offending names reported, with x stored before.
InvalidNameWitness ==
    /\ last.op = "update" /\ last.err = "KeyError" /\ last.bad = {n1x, nxd}
    /\ nx \in DOMAIN parameters
    /\ ny \notin DOMAIN parameters

BatchWitness ==
    /\ last.op = "mul" /\ last.err = ""
    /\ length \notin DOMAIN parameters_spec
    /\ length \notin DOMAIN scalings
    /\ time \in DOMAIN scalings /\ scalings[time] = Qty(RInt(2), "s")

\* z = 2 has just been stored durably while z and y hold functions: x got
\* the value the two inversions derived, and both functions are installed.
FunctionKeptWitness ==
    /\ last.op = "update" /\ last.err = ""
    /\ ny \in DOMAIN parameters /\ parameters[ny] = FDblXY
    /\ nz \in DOMAIN parameters /\ parameters[nz] = FDblYZ
    /\ nx \in DOMAIN parameters /\ parameters[nx] = Qty(<<1, 2>>, "")

\* y holds the square of the value x had at the durable update y = x**2.
CurrentValueWitness ==
    /\ last.op = "update" /\ last.err = ""
    /\ nx \in DOMAIN parameters /\ IsQuantity(parameters[nx]) /\ parameters[nx].v = RInt(2)
    /\ ny \in DOMAIN parameters /\ IsQuantity(parameters[ny]) /\ parameters[ny].v = RInt(4)

\* A diamond is installed: w depends on y and z, which hold functions of x,
\* and x holds a function itself.
DiamondWitness ==
    /\ last.op = "lshift" /\ last.err = ""
    /\ <<"w">> \in DOMAIN parameters /\ IsFunction(parameters[<<"w">>])
    /\ ny \in DOMAIN parameters /\ parameters[ny] = FSqX
    /\ nz \in DOMAIN parameters /\ parameters[nz] = FSqX
    /\ nx \in DOMAIN parameters /\ IsFunction(parameters[nx])

=============================================================================
